---- MODULE Spec2Model ----
(***************************************************************************)
(* Raydium CLMM analysis tool (src/src/main.rs, src/src/onchain_states.rs). *)
(*                                                                          *)
(* The tool is a command-line program: every run executes one command,      *)
(* which reads its arguments (and, for the rpc commands, the pool and       *)
(* bitmap accounts), computes, and prints.  A state of the model is one     *)
(* finished run: the command, what it read, and what it computed/printed.   *)
(***************************************************************************)
EXTENDS Integers, Sequences, FiniteSets, TLC

VARIABLES
    cmd,    \* the command of the run ("none" before any run)
    args,   \* its arguments and the account data it fetched
    out     \* what it computed and printed

vars == <<cmd, args, out>>

(***************************************************************************)
(* Bounds of the model.                                                     *)
(***************************************************************************)
MaxTick == 130        \* ticks given on the command line: -MaxTick..MaxTick
MaxSpacing == 2       \* tick spacings: 1..MaxSpacing
MaxSetBits == 2       \* set bits of a fetched bitmap with more than one set bit
MaxPopulated == 3     \* populated tick arrays of a pool whose swap arrays are resolved

Ticks == (-MaxTick)..MaxTick
Spacings == 1..MaxSpacing

(***************************************************************************)
(* Rust's i32: division truncates toward zero, the remainder has the sign   *)
(* of the dividend, and + - * wrap modulo 2^32 when overflow checks are off *)
(* (release profile) and panic when they are on (debug profile).            *)
(***************************************************************************)
I32Max == 2147483647
I32Min == -I32Max - 1

\* a / b for b > 0 (Rust: truncation toward zero)
TruncDiv(a, b) == IF a >= 0 \/ a % b = 0 THEN a \div b ELSE (a \div b) + 1

\* a % b for b > 0 (Rust: sign of the dividend)
TruncRem(a, b) == IF a >= 0 \/ a % b = 0 THEN a % b ELSE (a % b) - b

\* a + b overflows i32
AddOverflows(a, b) ==
    \/ a > 0 /\ b > I32Max - a
    \/ a < 0 /\ b < I32Min - a

\* a.wrapping_add(b)
WrapAdd(a, b) ==
    IF a > 0 /\ b > I32Max - a THEN (a + I32Min) + (b + I32Min)
    ELSE IF a < 0 /\ b < I32Min - a THEN (a - I32Min) + (b - I32Min)
    ELSE a + b

\* a.wrapping_mul(b) for b >= 0, by binary expansion of b
RECURSIVE WrapMul(_, _)
WrapMul(a, b) ==
    IF b = 0 THEN 0
    ELSE LET h == WrapMul(WrapAdd(a, a), b \div 2)
         IN  IF b % 2 = 1 THEN WrapAdd(h, a) ELSE h

\* a * b overflows i32, for b > 0
MulOverflows(a, b) == a > I32Max \div b \/ a < TruncDiv(I32Min, b)

(***************************************************************************)
(* TickArrayHelper                                                          *)
(***************************************************************************)
TICK_ARRAY_SIZE == 60

\* TickArrayHelper::tick_indices_per_array
TickIndicesPerArray(tick_spacing) == TICK_ARRAY_SIZE * tick_spacing

\* get_array_start_index with the negative adjustment applied to every negative tick
GetArrayStartIndexAlwaysAdjust(tick_index, tick_spacing) ==
    LET ticks_in_array == TickIndicesPerArray(tick_spacing)
        start == TruncDiv(tick_index, ticks_in_array)
    IN  WrapMul(IF tick_index < 0 THEN start - 1 ELSE start, ticks_in_array)

\* get_array_start_index without the negative adjustment (native division)
GetArrayStartIndexTrunc(tick_index, tick_spacing) ==
    LET ticks_in_array == TickIndicesPerArray(tick_spacing)
    IN  WrapMul(TruncDiv(tick_index, ticks_in_array), ticks_in_array)

\* TickArrayHelper::get_array_start_index
GetArrayStartIndex(tick_index, tick_spacing) ==
    LET ticks_in_array == TickIndicesPerArray(tick_spacing)
        start0 == TruncDiv(tick_index, ticks_in_array)
        start == IF tick_index < 0 /\ TruncRem(tick_index, ticks_in_array) # 0
                 THEN start0 - 1 ELSE start0
    IN  WrapMul(start, ticks_in_array)

\* the multiplication in get_array_start_index overflows i32
GetArrayStartIndexOverflows(tick_index, tick_spacing) ==
    LET ticks_in_array == TickIndicesPerArray(tick_spacing)
        start0 == TruncDiv(tick_index, ticks_in_array)
        start == IF tick_index < 0 /\ TruncRem(tick_index, ticks_in_array) # 0
                 THEN start0 - 1 ELSE start0
    IN  MulOverflows(start, ticks_in_array)

\* get_array_tick_range returning the exclusive end
GetArrayTickRangeExclusive(start_index, tick_spacing) ==
    <<start_index, WrapAdd(start_index, TickIndicesPerArray(tick_spacing))>>

\* TickArrayHelper::get_array_tick_range
GetArrayTickRange(start_index, tick_spacing) ==
    LET end_index == WrapAdd(start_index, TickIndicesPerArray(tick_spacing))
    IN  <<start_index, end_index - 1>>

\* an align_tick_to_spacing without the adjustment for negative ticks
AlignTickToSpacingTrunc(tick, tick_spacing) ==
    WrapMul(TruncDiv(tick, tick_spacing), tick_spacing)

\* TickArrayHelper::align_tick_to_spacing
AlignTickToSpacing(tick, tick_spacing) ==
    LET compressed0 == TruncDiv(tick, tick_spacing)
        compressed == IF tick < 0 /\ TruncRem(tick, tick_spacing) # 0
                      THEN compressed0 - 1 ELSE compressed0
    IN  WrapMul(compressed, tick_spacing)

(***************************************************************************)
(* f64 values.  A price is kept by its class and, when positive and finite, *)
(* by its logarithm to base Q_RATIO in units of 1/LogScale tick, so that    *)
(* multiplying prices adds logarithms and log(Q_RATIO).floor() is a floor   *)
(* division.  Rounding is invisible at this resolution except where the     *)
(* exact logarithm is an integer: there the computed logarithm may fall     *)
(* just below the integer (log_below), and floor() then yields one less.    *)
(***************************************************************************)
LogScale == 100
LogTen == 2302700          \* log_Q(10)
F64MaxLog == 709818200     \* log_Q(f64::MAX): larger products are +inf
F64MinLog == -744477200    \* log_Q(smallest subnormal): smaller products are 0

FloorDiv(a, b) == a \div b

F64Pos(lg) ==
    IF lg > F64MaxLog THEN [cls |-> "posinf", lg |-> 0]
    ELSE IF lg < F64MinLog THEN [cls |-> "zero", lg |-> 0]
    ELSE [cls |-> "pos", lg |-> lg]
F64Zero == [cls |-> "zero", lg |-> 0]
F64Neg == [cls |-> "neg", lg |-> 0]
F64Inf == [cls |-> "posinf", lg |-> 0]
F64NaN == [cls |-> "nan", lg |-> 0]

\* a * b
F64Mul(a, b) ==
    IF a.cls = "nan" \/ b.cls = "nan" THEN F64NaN
    ELSE IF (a.cls = "zero" /\ b.cls = "posinf") \/ (a.cls = "posinf" /\ b.cls = "zero")
         THEN F64NaN
    ELSE IF a.cls = "zero" \/ b.cls = "zero" THEN F64Zero
    ELSE IF a.cls = "neg" /\ b.cls = "neg" THEN F64Inf
    ELSE IF a.cls = "neg" \/ b.cls = "neg" THEN F64Neg
    ELSE IF a.cls = "posinf" \/ b.cls = "posinf" THEN F64Inf
    ELSE F64Pos(a.lg + b.lg)

\* 1.0 / a
F64Recip(a) ==
    CASE a.cls = "pos" -> F64Pos(-a.lg)
      [] a.cls = "zero" -> F64Inf
      [] a.cls = "posinf" -> F64Zero
      [] a.cls = "neg" -> F64Neg
      [] OTHER -> F64NaN

\* a / b
F64Div(a, b) ==
    IF (a.cls = "zero" /\ b.cls = "zero") \/ (a.cls = "posinf" /\ b.cls = "posinf")
    THEN F64NaN
    ELSE F64Mul(a, F64Recip(b))

\* 10f64.powi(decimals_0) / 10f64.powi(decimals_1)
DecimalAdjustment(decimals_0, decimals_1) == F64Pos((decimals_0 - decimals_1) * LogTen)

\* Q_RATIO.powi(tick) is finite and non-zero for |tick| <= PowiMaxTick
PowiMaxTick == 7098182

\* TickConverter::tick_to_raw_price
TickToRawPrice(tick) ==
    IF tick > PowiMaxTick THEN F64Inf
    ELSE IF tick < -PowiMaxTick THEN F64Zero
    ELSE F64Pos(tick * LogScale)

\* TickConverter::raw_price_to_tick: price.log(Q_RATIO).floor() as i32; the cast
\* saturates, and turns NaN (the logarithm of a negative price) into 0
RawPriceToTick(price, log_below) ==
    CASE price.cls = "pos" ->
            IF price.lg % LogScale = 0 /\ log_below
            THEN FloorDiv(price.lg, LogScale) - 1
            ELSE FloorDiv(price.lg, LogScale)
      [] price.cls = "zero" -> I32Min
      [] price.cls = "posinf" -> I32Max
      [] OTHER -> 0

PriceTags == {"Token1PerToken0Raw", "Token0PerToken1Raw",
              "Token1PerToken0Human", "Token0PerToken1Human"}

\* TickConverter::tick_to_price
TickToPrice(tick, tag, decimals_0, decimals_1) ==
    LET raw_price == TickToRawPrice(tick)
        decimal_adjustment == DecimalAdjustment(decimals_0, decimals_1)
    IN  CASE tag = "Token1PerToken0Raw" -> raw_price
          [] tag = "Token0PerToken1Raw" -> F64Recip(raw_price)
          [] tag = "Token1PerToken0Human" -> F64Mul(raw_price, decimal_adjustment)
          [] tag = "Token0PerToken1Human" ->
                F64Recip(F64Mul(raw_price, decimal_adjustment))

\* TickConverter::price_to_tick
PriceToTick(tag, price, decimals_0, decimals_1, log_below) ==
    LET decimal_adjustment == DecimalAdjustment(decimals_0, decimals_1)
        raw_price ==
            CASE tag = "Token1PerToken0Raw" -> price
              [] tag = "Token0PerToken1Raw" -> F64Recip(price)
              [] tag = "Token1PerToken0Human" -> F64Div(price, decimal_adjustment)
              [] tag = "Token0PerToken1Human" ->
                    F64Recip(F64Mul(price, decimal_adjustment))
    IN  RawPriceToTick(raw_price, log_below)

(***************************************************************************)
(* Inputs of the model                                                      *)
(***************************************************************************)
Decimals == {6, 9}
Pools == {"pool"}

\* prices given on the command line: the prices the tool prints for the ticks
\* of the model, and prices half a tick above them
HalfTick == LogScale \div 2
PricesFor(tag, decimals_0, decimals_1, ticks) ==
    UNION { LET p == TickToPrice(t, tag, decimals_0, decimals_1)
            IN  {p, F64Pos(p.lg + HalfTick)} : t \in ticks }

\* Pubkey::find_program_address(&[TICK_ARRAY_SEED, pool, start_index.to_be_bytes()])
TickArrayPda(pool_id, start_index) == <<"tick_array", pool_id, start_index>>

(***************************************************************************)
(* Commands without network access                                          *)
(***************************************************************************)

\* a slot offset left in tick units
SlotOffsetUndivided(aligned_tick, start_index, tick_spacing) ==
    aligned_tick - start_index

\* print_tick_info: let offset = (aligned_tick - start_index) / tick_spacing
SlotOffset(aligned_tick, start_index, tick_spacing) ==
    TruncDiv(aligned_tick - start_index, tick_spacing)

\* Commands::TickInfo -> TickArrayHelper::print_tick_info
TickInfo ==
    /\ cmd = "none"
    /\ \E tick \in Ticks, tick_spacing \in Spacings :
        LET aligned_tick == AlignTickToSpacing(tick, tick_spacing)
            start_index == GetArrayStartIndex(aligned_tick, tick_spacing)
            offset == SlotOffset(aligned_tick, start_index, tick_spacing)
        IN  /\ cmd' = "TickInfo"
            /\ args' = [tick |-> tick, tick_spacing |-> tick_spacing]
            /\ out' = [aligned_tick |-> aligned_tick,
                       start_index |-> start_index,
                       offset |-> offset]

\* Commands::ArrayInfo -> TickArrayHelper::print_array_info
ArrayInfo ==
    /\ cmd = "none"
    /\ \E start_index \in Ticks, tick_spacing \in Spacings :
        /\ cmd' = "ArrayInfo"
        /\ args' = [start_index |-> start_index, tick_spacing |-> tick_spacing]
        /\ out' = [range |-> GetArrayTickRange(start_index, tick_spacing),
                   slots |-> [slot \in 0..(TICK_ARRAY_SIZE - 1) |->
                                 start_index + slot * tick_spacing]]

\* a derive-pda that lets --tick win over a price instead of rejecting both
DerivePdaErrorTickWins(tick, price) ==
    IF tick = <<>> /\ price = <<>> THEN "neither" ELSE "none"

\* the two early returns of Commands::DerivePda: neither of --tick and a
\* price, then both of them (an Option is a sequence: <<>> is None, <<v>>
\* is Some(v))
DerivePdaError(tick, price) ==
    IF tick = <<>> /\ price = <<>> THEN "neither"
    ELSE IF tick # <<>> /\ price # <<>> THEN "both"
    ELSE "none"

\* Commands::DerivePda
DerivePda ==
    /\ cmd = "none"
    /\ \E tick_spacing \in Spacings, decimals0 \in Decimals, decimals1 \in Decimals,
          tick \in {<<>>} \cup {<<t>> : t \in Ticks},
          tag \in {"None"} \cup PriceTags, log_below \in BOOLEAN :
       \E price \in IF tag = "None" THEN {<<>>}
                    ELSE {<<tag, p>> : p \in PricesFor(tag, decimals0, decimals1,
                                                       {-MaxTick, -1, 0, MaxTick})} :
        /\ cmd' = "DerivePda"
        /\ args' = [pool_id |-> "pool", tick_spacing |-> tick_spacing,
                    decimals0 |-> decimals0, decimals1 |-> decimals1,
                    tick |-> tick, price |-> price]
        /\ IF DerivePdaError(tick, price) # "none"
           THEN out' = [error |-> DerivePdaError(tick, price), derived |-> FALSE]
           ELSE LET input_tick ==
                        IF tick # <<>> THEN tick[1]
                        ELSE PriceToTick(price[1], price[2], decimals0, decimals1,
                                         log_below)
                    start_index == GetArrayStartIndex(input_tick, tick_spacing)
                IN  out' = [error |-> "none", derived |-> TRUE,
                            input_tick |-> input_tick,
                            start_index |-> start_index,
                            pda |-> TickArrayPda("pool", start_index)]

(***************************************************************************)
(* Bitmaps.  A u64 word is the set of its set bit indices (0..63), so       *)
(* word == 0 is word = {} and (word & (1u64 << bit_idx)) != 0 is            *)
(* bit_idx \in word.  A Vec is a sequence, in push order.                   *)
(***************************************************************************)
WORD_BITS == 64
DEFAULT_WORDS == 16      \* PoolState::tick_array_bitmap: [u64; 16]
EXTENSION_CHUNKS == 14   \* TickArrayBitmapExtension: [[u64; 8]; 14] per side
CHUNK_WORDS == 8

\* the bit_idx in bit_idx..63 whose bit is set in word, ascending
\* (for bit_idx in 0..64 { if (word & (1u64 << bit_idx)) != 0 {..} })
RECURSIVE SetBitsFrom(_, _)
SetBitsFrom(word, bit_idx) ==
    IF bit_idx = WORD_BITS THEN <<>>
    ELSE (IF bit_idx \in word THEN <<bit_idx>> ELSE <<>>)
         \o SetBitsFrom(word, bit_idx + 1)

\* default bitmap without the centre: bit i is array offset i
DefaultArrayOffsetUncentred(word_idx, bit_idx) == word_idx * 64 + bit_idx

\* read_default_bitmap: array offset of a set bit
DefaultArrayOffset(word_idx, bit_idx) ==
    LET global_bit_pos == word_idx * 64 + bit_idx
    IN  global_bit_pos - 512

\* positive extension starting one offset late, leaving 512 to no bit
PositiveArrayOffsetGapped(bitmap_idx, word_idx, bit_idx) ==
    513 + (bitmap_idx * 512) + (word_idx * 64 + bit_idx)

\* read_extension_bitmap, positive side: array offset of a set bit
PositiveArrayOffset(bitmap_idx, word_idx, bit_idx) ==
    LET arrays_per_bitmap == 512
        bit_pos_in_chunk == word_idx * 64 + bit_idx
    IN  512 + (bitmap_idx * arrays_per_bitmap) + bit_pos_in_chunk

\* negative extension read in the bit order of the positive side (not reversed)
NegativeArrayOffsetUnreversed(bitmap_idx, word_idx, bit_idx) ==
    -513 - (bitmap_idx * 512) - (word_idx * 64 + bit_idx)

\* negative extension starting at -512, the last offset of the default bitmap
NegativeArrayOffsetOverlapping(bitmap_idx, word_idx, bit_idx) ==
    -512 - (bitmap_idx * 512) - (511 - (word_idx * 64 + bit_idx))

\* read_extension_bitmap, negative side: array offset of a set bit
NegativeArrayOffset(bitmap_idx, word_idx, bit_idx) ==
    LET arrays_per_bitmap == 512
        bit_pos_in_chunk == word_idx * 64 + bit_idx
        offset_in_bitmap == 511 - bit_pos_in_chunk
    IN  -513 - (bitmap_idx * arrays_per_bitmap) - offset_in_bitmap

\* the array offset of a set bit, by the loop that reads it
ArrayOffset(tier, bitmap_idx, word_idx, bit_idx) ==
    CASE tier = "default" -> DefaultArrayOffset(word_idx, bit_idx)
      [] tier = "positive" -> PositiveArrayOffset(bitmap_idx, word_idx, bit_idx)
      [] tier = "negative" -> NegativeArrayOffset(bitmap_idx, word_idx, bit_idx)

\* the inner loops of the readers: the start indices pushed for the words
\* word_idx.. of one [u64; n]
RECURSIVE ReadWords(_, _, _, _, _, _)
ReadWords(words, n, word_idx, ticks_per_array, tier, bitmap_idx) ==
    IF word_idx = n THEN <<>>
    ELSE LET word == words[word_idx]
             bits == IF word = {} THEN <<>> ELSE SetBitsFrom(word, 0)
         IN  [i \in 1..Len(bits) |->
                 WrapMul(ArrayOffset(tier, bitmap_idx, word_idx, bits[i]),
                         ticks_per_array)]
             \o ReadWords(words, n, word_idx + 1, ticks_per_array, tier, bitmap_idx)

\* read_default_bitmap
ReadDefaultBitmap(bitmap, tick_spacing) ==
    LET ticks_per_array == TICK_ARRAY_SIZE * tick_spacing
    IN  ReadWords(bitmap, DEFAULT_WORDS, 0, ticks_per_array, "default", 0)

\* read_extension_bitmap: the loop over the chunks bitmap_idx.. of one side
RECURSIVE ReadChunks(_, _, _, _)
ReadChunks(chunks, bitmap_idx, ticks_per_array, side) ==
    IF bitmap_idx = EXTENSION_CHUNKS THEN <<>>
    ELSE ReadWords(chunks[bitmap_idx], CHUNK_WORDS, 0, ticks_per_array, side, bitmap_idx)
         \o ReadChunks(chunks, bitmap_idx + 1, ticks_per_array, side)

\* read_extension_bitmap
ReadExtensionBitmap(extension, tick_spacing) ==
    LET ticks_per_array == TICK_ARRAY_SIZE * tick_spacing
    IN  ReadChunks(extension.positive_tick_array_bitmap, 0, ticks_per_array, "positive")
        \o ReadChunks(extension.negative_tick_array_bitmap, 0, ticks_per_array, "negative")

\* Vec<i32>::sort(): ascending; equal elements are kept
SortAsc(v) == SortSeq(v, LAMBDA a, b : a < b)

\* Vec<i32>::sort_by(|a, b| b.cmp(a)): descending
SortDesc(v) == SortSeq(v, LAMBDA a, b : b < a)

\* the two reads appended, without the sort
AllInitializedArraysUnsorted(tick_array_bitmap, extension, tick_spacing) ==
    ReadDefaultBitmap(tick_array_bitmap, tick_spacing)
        \o ReadExtensionBitmap(extension, tick_spacing)

\* GetSwapArrays step 5, FullAnalysis step 3:
\* read_default_bitmap, append read_extension_bitmap, sort
AllInitializedArrays(tick_array_bitmap, extension, tick_spacing) ==
    SortAsc(ReadDefaultBitmap(tick_array_bitmap, tick_spacing)
                \o ReadExtensionBitmap(extension, tick_spacing))

(***************************************************************************)
(* Account data the rpc commands fetch                                      *)
(***************************************************************************)

\* a bit of the default bitmap is its global position 0..1023; a bit of the
\* extension is <<side, chunk, position in chunk 0..511>>
DefaultBitPositions == 0..(DEFAULT_WORDS * WORD_BITS - 1)
ExtensionBitPositions ==
    {"positive", "negative"} \X (0..(EXTENSION_CHUNKS - 1)) \X (0..(CHUNK_WORDS * WORD_BITS - 1))

\* the [u64; 16] whose set bits are the positions in S
DefaultBitmapWith(S) ==
    [word_idx \in 0..(DEFAULT_WORDS - 1) |->
        {i % WORD_BITS : i \in {j \in S : j \div WORD_BITS = word_idx}}]

ChunksWith(side, S) ==
    [bitmap_idx \in 0..(EXTENSION_CHUNKS - 1) |->
        [word_idx \in 0..(CHUNK_WORDS - 1) |->
            {x[3] % WORD_BITS :
                x \in {y \in S : /\ y[1] = side
                                 /\ y[2] = bitmap_idx
                                 /\ y[3] \div WORD_BITS = word_idx}}]]

\* the TickArrayBitmapExtension whose set bits are the positions in S
ExtensionWith(S) ==
    [positive_tick_array_bitmap |-> ChunksWith("positive", S),
     negative_tick_array_bitmap |-> ChunksWith("negative", S)]

\* positions at the edges of words, chunks and tiers, and around the centre
DefaultSample == {0, 63, 64, 510, 511, 512, 513, 1023}
ExtensionSample ==
    {<<"positive", 0, 0>>, <<"positive", 0, 511>>, <<"positive", 1, 64>>,
     <<"positive", 13, 511>>,
     <<"negative", 0, 511>>, <<"negative", 0, 0>>, <<"negative", 1, 447>>,
     <<"negative", 13, 0>>}

UpTo(S, n) == {T \in SUBSET S : Cardinality(T) <= n}

\* set bits of the fetched default bitmaps: every single position, and up
\* to MaxSetBits of the sample positions
DefaultBitSets ==
    {{i} : i \in DefaultBitPositions} \cup UpTo(DefaultSample, MaxSetBits)

\* set bits of the fetched extensions, likewise
ExtensionBitSets ==
    {{i} : i \in ExtensionBitPositions} \cup UpTo(ExtensionSample, MaxSetBits)

\* set bits of the fetched (default bitmap, extension) pairs: up to
\* MaxSetBits of the sample positions of both
PairBitSets ==
    UpTo(({"default"} \X DefaultSample) \cup ({"extension"} \X ExtensionSample),
         MaxSetBits)
DefaultOfPair(S) == DefaultBitmapWith({x[2] : x \in {y \in S : y[1] = "default"}})
ExtensionOfPair(S) == ExtensionWith({x[2] : x \in {y \in S : y[1] = "extension"}})

\* PoolState::tick_current
PoolTicks == {-MaxTick, -TICK_ARRAY_SIZE - 1, -TICK_ARRAY_SIZE, -1, 0, 1,
              TICK_ARRAY_SIZE - 1, TICK_ARRAY_SIZE, MaxTick}

\* the tick ranges printed for a list of start indices
RangesOf(starts, tick_spacing) ==
    [i \in 1..Len(starts) |-> GetArrayTickRange(starts[i], tick_spacing)]

(***************************************************************************)
(* Rpc commands that list the populated tick arrays                         *)
(***************************************************************************)

\* RpcCommands::DefaultBitmap
DefaultBitmap ==
    /\ cmd = "none"
    /\ \E bits \in DefaultBitSets, tick_spacing \in Spacings :
        LET tick_array_bitmap == DefaultBitmapWith(bits)
            initialized == ReadDefaultBitmap(tick_array_bitmap, tick_spacing)
        IN  /\ cmd' = "DefaultBitmap"
            /\ args' = [pool_state |-> [tick_spacing |-> tick_spacing,
                                        tick_array_bitmap |-> tick_array_bitmap]]
            /\ out' = [initialized |-> initialized,
                       ranges |-> RangesOf(initialized, tick_spacing)]

\* RpcCommands::ExtensionBitmap
ExtensionBitmap ==
    /\ cmd = "none"
    /\ \E bits \in ExtensionBitSets, tick_spacing \in Spacings :
      \E extension \in {ExtensionWith(bits)} :
      \E initialized \in {SortAsc(ReadExtensionBitmap(extension, tick_spacing))} :
            /\ cmd' = "ExtensionBitmap"
            /\ args' = [pool_state |-> [tick_spacing |-> tick_spacing],
                        extension |-> extension]
            /\ out' = [initialized |-> initialized,
                       ranges |-> RangesOf(initialized, tick_spacing)]

\* a listing that prints the current-tick marker before every array
FullAnalysisLinesMarkerFirst(arrays, i, tick_current, current_tick_printed, tick_spacing) ==
    <<[kind |-> "current", tick |-> tick_current]>>
        \o [k \in 1..Len(arrays) |-> [kind |-> "array", tick |-> arrays[k]]]

\* FullAnalysis: the listing loop from entry i on, with the current-tick marker
RECURSIVE FullAnalysisLines(_, _, _, _, _)
FullAnalysisLines(arrays, i, tick_current, current_tick_printed, tick_spacing) ==
    IF i > Len(arrays) THEN
        IF ~current_tick_printed THEN <<[kind |-> "current", tick |-> tick_current]>>
        ELSE <<>>
    ELSE LET start_index == arrays[i]
             mark == ~current_tick_printed /\ start_index > tick_current
         IN  (IF mark THEN <<[kind |-> "current", tick |-> tick_current]>> ELSE <<>>)
             \o <<[kind |-> "array", tick |-> start_index]>>
             \o FullAnalysisLines(arrays, i + 1, tick_current,
                                  current_tick_printed \/ mark, tick_spacing)

\* RpcCommands::FullAnalysis
FullAnalysis ==
    /\ cmd = "none"
    /\ \E bits \in PairBitSets, tick_spacing \in Spacings, tick_current \in PoolTicks :
        LET pair == <<DefaultOfPair(bits), ExtensionOfPair(bits)>>
            all_initialized_arrays == AllInitializedArrays(pair[1], pair[2], tick_spacing)
        IN  /\ cmd' = "FullAnalysis"
            /\ args' = [pool_state |-> [tick_spacing |-> tick_spacing,
                                        tick_current |-> tick_current,
                                        tick_array_bitmap |-> pair[1]],
                        extension |-> pair[2]]
            /\ out' = [all_initialized_arrays |-> all_initialized_arrays,
                       lines |-> FullAnalysisLines(all_initialized_arrays, 1,
                                                   tick_current, FALSE, tick_spacing)]

(***************************************************************************)
(* Swap array resolution (GetSwapArraysBlind, GetSwapArrays)                *)
(***************************************************************************)
Directions == {"BuyT1", "BuyT0"}

\* the help text of the directions: where it says the price and tick move
DirectionHelp(direction) ==
    IF direction = "BuyT1" THEN "increases" ELSE "decreases"
HumanPriceFormats == {"T0PerT1", "T1PerT0"}

\* --favorable-pct / --impact-pct: 0, a small move, the whole price, more than
\* the whole price
Pcts == {0, 1, 100, 150}

\* 1.0 + (pct / 100.0)
OnePlusPct(pct) ==
    CASE pct = 0 -> F64Pos(0)
      [] pct = 1 -> F64Pos(9950)        \* log_Q(1.01) = 99.508
      [] pct = 2 -> F64Pos(19803)       \* log_Q(1.02) = 198.036
      [] pct = 100 -> F64Pos(693181)    \* log_Q(2) = 6931.818
      [] pct = 150 -> F64Pos(916336)    \* log_Q(2.5) = 9163.365

\* 1.0 - (pct / 100.0)
OneMinusPct(pct) ==
    CASE pct = 0 -> F64Pos(0)
      [] pct = 1 -> F64Pos(-10051)      \* log_Q(0.99) = -100.508
      [] pct = 2 -> F64Pos(-20204)      \* log_Q(0.98) = -202.037
      [] pct = 100 -> F64Zero
      [] pct > 100 -> F64Neg

\* step 3 of both commands: the start tick, from --price or the pool
SwapStartTick(price, format, pool_state, log_below) ==
    IF price # <<>>
    THEN LET tag == IF format = "T0PerT1" THEN "Token0PerToken1Human"
                    ELSE "Token1PerToken0Human"
         IN  PriceToTick(tag, price[1], pool_state.mint_decimals_0,
                         pool_state.mint_decimals_1, log_below)
    ELSE pool_state.tick_current

\* step 4 with the signs of BuyT1 used for both directions
SwapTicksOneSign(direction, tick_start, favorable_pct, impact_pct, log_below) ==
    LET start_raw_price == TickToRawPrice(tick_start)
    IN  <<RawPriceToTick(F64Mul(start_raw_price, OnePlusPct(favorable_pct)), log_below),
          RawPriceToTick(F64Mul(start_raw_price, OneMinusPct(impact_pct)), log_below)>>

\* step 4 of both commands: <<tick_favorable, tick_impact>>
SwapTicks(direction, tick_start, favorable_pct, impact_pct, log_below) ==
    LET start_raw_price == TickToRawPrice(tick_start)
    IN  IF direction = "BuyT1"
        THEN LET favorable_raw_price == F64Mul(start_raw_price, OnePlusPct(favorable_pct))
                 impact_raw_price == F64Mul(start_raw_price, OneMinusPct(impact_pct))
             IN  <<RawPriceToTick(favorable_raw_price, log_below),
                   RawPriceToTick(impact_raw_price, log_below)>>
        ELSE LET favorable_raw_price == F64Mul(start_raw_price, OneMinusPct(favorable_pct))
                 impact_raw_price == F64Mul(start_raw_price, OnePlusPct(impact_pct))
             IN  <<RawPriceToTick(favorable_raw_price, log_below),
                   RawPriceToTick(impact_raw_price, log_below)>>

Min(a, b) == IF a <= b THEN a ELSE b
Max(a, b) == IF a >= b THEN a ELSE b

\* v.iter().filter(|s| s in keep).cloned().collect()
Filter(v, keep) == SelectSeq(v, LAMBDA s : s \in keep)

Elems(v) == {v[i] : i \in 1..Len(v)}

\* (start_index <= hi) && (tick_end >= lo), tick_end from get_array_tick_range
ArrayTouches(start_index, tick_spacing, lo, hi) ==
    LET tick_end == GetArrayTickRange(start_index, tick_spacing)[2]
    IN  (start_index <= hi) /\ (tick_end >= lo)

\* blind step 5: while current_array_start <= start_array_max { push; += step }
\* The loop is written in closed form; the addition cannot overflow while
\* start_array_max <= I32Max - step, which holds for every tick below I32Max.
PotentialArrays(current_array_start, start_array_max, step) ==
    IF current_array_start <= start_array_max
    THEN [i \in 1..(TruncDiv(start_array_max - current_array_start, step) + 1) |->
              current_array_start + (i - 1) * step]
    ELSE <<>>

\* blind step 7, core_arrays
BlindCoreArrays(potential_arrays, tick_spacing, core_min_tick, core_max_tick) ==
    Filter(potential_arrays,
           {s \in Elems(potential_arrays) :
                ArrayTouches(s, tick_spacing, core_min_tick, core_max_tick)})

\* blind step 7, favorable_arrays, without the exclusion of the core arrays
BlindFavorableArraysNoExclusion(potential_arrays, tick_spacing, core_min_tick, core_max_tick, favorable_min_tick, favorable_max_tick) ==
    Filter(potential_arrays,
           {s \in Elems(potential_arrays) :
                ArrayTouches(s, tick_spacing, favorable_min_tick, favorable_max_tick)})

\* blind step 7, favorable_arrays
BlindFavorableArrays(potential_arrays, tick_spacing, core_min_tick, core_max_tick, favorable_min_tick, favorable_max_tick) ==
    Filter(potential_arrays,
           {s \in Elems(potential_arrays) :
                LET in_favorable_range ==
                        ArrayTouches(s, tick_spacing, favorable_min_tick, favorable_max_tick)
                    in_core_range ==
                        ArrayTouches(s, tick_spacing, core_min_tick, core_max_tick)
                IN  in_favorable_range /\ ~in_core_range})

\* print_swap_array_info, one call per entry of v
SwapArrayInfos(label, v, pool_id) ==
    [i \in 1..Len(v) |->
        [label |-> label, start_index |-> v[i], pda |-> TickArrayPda(pool_id, v[i])]]

\* blind step 9: the favorable and core arrays in the order they are printed
BlindPrinted(direction, favorable_arrays, core_arrays, pool_id) ==
    IF direction = "BuyT1"
    THEN SwapArrayInfos("FAVORABLE", SortDesc(favorable_arrays), pool_id)
         \o SwapArrayInfos("CORE", SortDesc(core_arrays), pool_id)
    ELSE SwapArrayInfos("FAVORABLE", favorable_arrays, pool_id)
         \o SwapArrayInfos("CORE", core_arrays, pool_id)

\* the pool's decimals, its current tick and the --format / --price arguments
\* of a swap command: no price and any pool tick, or the human price of a
\* tick (exact, or half a tick above it) in either format
SwapPoolDecimals == <<9, 6>>
SwapStarts ==
    {[tick_current |-> t, format |-> f, price |-> <<>>] :
        t \in PoolTicks, f \in {"T0PerT1"}}
    \cup
    UNION {{[tick_current |-> 0, format |-> f, price |-> <<p>>] :
               p \in PricesFor(IF f = "T0PerT1" THEN "Token0PerToken1Human"
                               ELSE "Token1PerToken0Human",
                               SwapPoolDecimals[1], SwapPoolDecimals[2], {-MaxTick})} :
           f \in HumanPriceFormats}

\* the percentages and tick spacings of the blind runs: those of the strict
\* runs, a second small move, and the tick spacing of a 0.05% fee pool
BlindPcts == Pcts \cup {2}
BlindSpacings == Spacings \cup {10}

\* RpcCommands::GetSwapArraysBlind
GetSwapArraysBlind ==
    /\ cmd = "none"
    /\ \E direction \in Directions, start \in SwapStarts,
          favorable_pct \in BlindPcts, impact_pct \in BlindPcts,
          tick_spacing \in BlindSpacings,
          log_below \in BOOLEAN, overflow_checks \in BOOLEAN :
        LET format == start.format
            price == start.price
            pool_state == [tick_spacing |-> tick_spacing,
                           tick_current |-> start.tick_current,
                           mint_decimals_0 |-> SwapPoolDecimals[1],
                           mint_decimals_1 |-> SwapPoolDecimals[2]]
            tick_start == SwapStartTick(price, format, pool_state, log_below)
            ticks == SwapTicks(direction, tick_start, favorable_pct, impact_pct, log_below)
            tick_favorable == ticks[1]
            tick_impact == ticks[2]
            min_tick == Min(tick_favorable, tick_impact)
            max_tick == Max(tick_favorable, tick_impact)
            overflows == \/ GetArrayStartIndexOverflows(min_tick, tick_spacing)
                         \/ GetArrayStartIndexOverflows(max_tick, tick_spacing)
            start_array_min == GetArrayStartIndex(min_tick, tick_spacing)
            start_array_max == GetArrayStartIndex(max_tick, tick_spacing)
            step == TickIndicesPerArray(tick_spacing)
            core_min_tick == Min(tick_start, tick_impact)
            core_max_tick == Max(tick_start, tick_impact)
            favorable_min_tick == Min(tick_start, tick_favorable)
            favorable_max_tick == Max(tick_start, tick_favorable)
        IN  /\ cmd' = "GetSwapArraysBlind"
            /\ args' = [pool_id |-> "pool", direction |-> direction, format |-> format,
                        favorable_pct |-> favorable_pct, impact_pct |-> impact_pct,
                        price |-> price, pool_state |-> pool_state]
            /\ IF overflows /\ overflow_checks
               THEN out' = [status |-> "panic", tick_start |-> tick_start,
                            tick_favorable |-> tick_favorable,
                            tick_impact |-> tick_impact]
               ELSE
                 \E potential_arrays \in
                        {PotentialArrays(start_array_min, start_array_max, step)} :
                 \E core_arrays \in
                        {BlindCoreArrays(potential_arrays, tick_spacing,
                                         core_min_tick, core_max_tick)} :
                 \E favorable_arrays \in
                        {BlindFavorableArrays(potential_arrays, tick_spacing,
                                              core_min_tick, core_max_tick,
                                              favorable_min_tick, favorable_max_tick)} :
                    LET surrounding_array ==
                            IF direction = "BuyT1"
                            THEN [label |-> "SURROUNDING_DN",
                                  start_index |-> WrapAdd(start_array_min, -step),
                                  pda |-> TickArrayPda("pool",
                                                       WrapAdd(start_array_min, -step))]
                            ELSE [label |-> "SURROUNDING_UP",
                                  start_index |-> WrapAdd(start_array_max, step),
                                  pda |-> TickArrayPda("pool",
                                                       WrapAdd(start_array_max, step))]
                    IN  out' = [status |-> "ok",
                                tick_start |-> tick_start,
                                tick_favorable |-> tick_favorable,
                                tick_impact |-> tick_impact,
                                potential_arrays |-> potential_arrays,
                                core_arrays |-> core_arrays,
                                favorable_arrays |-> favorable_arrays,
                                total_arrays |-> Len(core_arrays) + Len(favorable_arrays) + 1,
                                printed |-> BlindPrinted(direction, favorable_arrays,
                                                         core_arrays, "pool")
                                            \o <<surrounding_array>>]

\* strict step 6, arrays_in_range
ArraysInRange(all_initialized_arrays, tick_spacing, min_tick, max_tick) ==
    Filter(all_initialized_arrays,
           {s \in Elems(all_initialized_arrays) :
                ArrayTouches(s, tick_spacing, min_tick, max_tick)})

\* strict step 7 taking the first populated array on the impact side of the
\* list instead of the one nearest to the span
SurroundingArrayFarthest(direction, all_initialized_arrays, tick_spacing, min_tick, max_tick) ==
    IF direction = "BuyT1"
    THEN LET below == Filter(all_initialized_arrays,
                             {s \in Elems(all_initialized_arrays) :
                                  GetArrayTickRange(s, tick_spacing)[2] < min_tick})
         IN  IF below = <<>> THEN <<>>
             ELSE <<[start_index |-> below[1], label |-> "SURROUNDING_DN"]>>
    ELSE LET above == Filter(all_initialized_arrays,
                             {s \in Elems(all_initialized_arrays) : s > max_tick})
         IN  IF above = <<>> THEN <<>>
             ELSE <<[start_index |-> above[Len(above)], label |-> "SURROUNDING_UP"]>>

\* strict step 7: the surrounding array as an Option, <<>> or <<(start_index, label)>>
SurroundingArray(direction, all_initialized_arrays, tick_spacing, min_tick, max_tick) ==
    IF direction = "BuyT1"
    THEN LET below == Filter(all_initialized_arrays,
                             {s \in Elems(all_initialized_arrays) :
                                  GetArrayTickRange(s, tick_spacing)[2] < min_tick})
         IN  IF below = <<>> THEN <<>>
             ELSE <<[start_index |-> below[Len(below)], label |-> "SURROUNDING_DN"]>>
    ELSE LET above == Filter(all_initialized_arrays,
                             {s \in Elems(all_initialized_arrays) : s > max_tick})
         IN  IF above = <<>> THEN <<>>
             ELSE <<[start_index |-> above[1], label |-> "SURROUNDING_UP"]>>

\* the end of strict step 8 omitting the surrounding array silently
NoSurroundingSilent(surrounding_array) == FALSE

\* the end of strict step 8: the else branch of `if let Some(..) = surrounding_array`
\* prints "[WARNING] No initialized surrounding array found ..."
NoSurroundingWarning(surrounding_array) == surrounding_array = <<>>

\* strict step 8: the arrays in range in the order they are printed
StrictPrinted(direction, arrays_in_range, pool_id) ==
    IF direction = "BuyT1"
    THEN SwapArrayInfos("IN-RANGE", SortDesc(arrays_in_range), pool_id)
    ELSE SwapArrayInfos("IN-RANGE", arrays_in_range, pool_id)

\* bit positions near array offset 0 and the nearest bit of either extension side
SwapSample ==
    ({"default"} \X {510, 511, 512, 513})
        \cup ({"extension"} \X {<<"positive", 0, 0>>, <<"negative", 0, 511>>})

\* set bits of the bitmaps of a pool whose swap arrays are resolved
SwapBitSets == UpTo(SwapSample, MaxPopulated)

\* RpcCommands::GetSwapArrays
GetSwapArrays ==
    /\ cmd = "none"
    /\ \E bits \in SwapBitSets, tick_spacing \in Spacings :
       \E tick_array_bitmap \in {DefaultOfPair(bits)} :
       \E extension \in {ExtensionOfPair(bits)} :
       \E all_initialized_arrays \in
              {AllInitializedArrays(tick_array_bitmap, extension, tick_spacing)} :
       \E direction \in Directions, start \in SwapStarts,
          favorable_pct \in Pcts, impact_pct \in Pcts, log_below \in BOOLEAN :
        LET format == start.format
            price == start.price
            pool_state == [tick_spacing |-> tick_spacing,
                           tick_current |-> start.tick_current,
                           mint_decimals_0 |-> SwapPoolDecimals[1],
                           mint_decimals_1 |-> SwapPoolDecimals[2],
                           tick_array_bitmap |-> tick_array_bitmap]
            tick_start == SwapStartTick(price, format, pool_state, log_below)
            ticks == SwapTicks(direction, tick_start, favorable_pct, impact_pct, log_below)
            tick_favorable == ticks[1]
            tick_impact == ticks[2]
            min_tick == Min(tick_favorable, tick_impact)
            max_tick == Max(tick_favorable, tick_impact)
            arrays_in_range == ArraysInRange(all_initialized_arrays, tick_spacing,
                                             min_tick, max_tick)
            surrounding_array == SurroundingArray(direction, all_initialized_arrays,
                                                  tick_spacing, min_tick, max_tick)
        IN  /\ cmd' = "GetSwapArrays"
            /\ args' = [pool_id |-> "pool", direction |-> direction, format |-> format,
                        favorable_pct |-> favorable_pct, impact_pct |-> impact_pct,
                        price |-> price, pool_state |-> pool_state,
                        extension |-> extension]
            /\ out' = [status |-> "ok",
                       tick_start |-> tick_start,
                       tick_favorable |-> tick_favorable,
                       tick_impact |-> tick_impact,
                       all_initialized_arrays |-> all_initialized_arrays,
                       total_arrays |-> Len(arrays_in_range) + Len(surrounding_array),
                       printed |-> StrictPrinted(direction, arrays_in_range, "pool")
                                   \o [i \in 1..Len(surrounding_array) |->
                                         [label |-> surrounding_array[i].label,
                                          start_index |-> surrounding_array[i].start_index,
                                          pda |-> TickArrayPda("pool",
                                                     surrounding_array[i].start_index)]],
                       warning |-> NoSurroundingWarning(surrounding_array)]

(***************************************************************************)
(* Liquidity curve (RpcCommands::LiquidityCurve)                            *)
(***************************************************************************)

\* a < b on f64 values; a NaN compares false, negative values are not
\* told apart
F64Lt(a, b) ==
    LET rank(x) == CASE x.cls = "neg" -> 0
                     [] x.cls = "zero" -> 1
                     [] x.cls = "pos" -> 2
                     [] x.cls = "posinf" -> 3
                     [] OTHER -> -1
    IN  /\ a.cls # "nan"
        /\ b.cls # "nan"
        /\ \/ rank(a) < rank(b)
           \/ a.cls = "pos" /\ b.cls = "pos" /\ a.lg < b.lg

\* what the data source returns for the account of a tick array: an error,
\* bytes that do not parse, or a TickArrayState, kept by its ticks with
\* liquidity_gross != 0 in slot order
AccountKinds == {"fetch_error", "parse_error", "empty", "lower", "upper", "both"}
TickArrayAccount(kind, start_index, tick_spacing) ==
    CASE kind = "fetch_error" -> [status |-> "fetch_error", ticks |-> <<>>]
      [] kind = "parse_error" -> [status |-> "parse_error", ticks |-> <<>>]
      [] kind = "empty" -> [status |-> "ok", ticks |-> <<>>]
      [] kind = "lower" ->
            [status |-> "ok",
             ticks |-> <<[tick |-> WrapAdd(start_index, 30 * tick_spacing),
                          liquidity_net |-> 1]>>]
      [] kind = "upper" ->
            [status |-> "ok",
             ticks |-> <<[tick |-> WrapAdd(start_index, 30 * tick_spacing),
                          liquidity_net |-> -1]>>]
      [] OTHER ->
            [status |-> "ok",
             ticks |-> <<[tick |-> start_index, liquidity_net |-> 1],
                         [tick |-> WrapAdd(start_index, 59 * tick_spacing),
                          liquidity_net |-> -1]>>]

\* set bits of the bitmaps of a pool whose liquidity curve is drawn: around
\* the centre of the default bitmap and at both ends of the extension
CurveSample ==
    ({"default"} \X {511, 512})
        \cup ({"extension"} \X {<<"positive", 0, 0>>, <<"positive", 13, 511>>,
                                <<"negative", 0, 511>>})
CurveBitSets == UpTo(CurveSample, MaxSetBits)

\* PoolState::tick_spacing is a u16: the small spacings and the largest one
U16_MAX == 65535
CurveSpacings == Spacings \cup {U16_MAX}

\* read_default_bitmap, read_extension_bitmap: some
\* array_offset * ticks_per_array overflows
ReadOverflows(tick_array_bitmap, extension, tick_spacing) ==
    LET ticks_per_array == TICK_ARRAY_SIZE * tick_spacing
        overflows(tier, chunk, bitmap_idx) ==
            \E word_idx \in DOMAIN chunk : \E bit_idx \in chunk[word_idx] :
                MulOverflows(ArrayOffset(tier, bitmap_idx, word_idx, bit_idx),
                             ticks_per_array)
    IN  \/ overflows("default", tick_array_bitmap, 0)
        \/ \E bitmap_idx \in DOMAIN extension.positive_tick_array_bitmap :
               overflows("positive", extension.positive_tick_array_bitmap[bitmap_idx],
                         bitmap_idx)
        \/ \E bitmap_idx \in DOMAIN extension.negative_tick_array_bitmap :
               overflows("negative", extension.negative_tick_array_bitmap[bitmap_idx],
                         bitmap_idx)

\* PoolState::tick_current of such a pool
CurveTicks == {-TICK_ARRAY_SIZE - 1, 0, TICK_ARRAY_SIZE}

\* --max-width
MaxWidths == {10, 50}

\* the fetch loop from array i on: the ticks pushed to all_ticks
RECURSIVE CollectTicks(_, _, _)
CollectTicks(all_initialized_arrays, i, accounts) ==
    IF i > Len(all_initialized_arrays) THEN <<>>
    ELSE LET account == accounts[all_initialized_arrays[i]]
         IN  (IF account.status = "ok" THEN account.ticks ELSE <<>>)
             \o CollectTicks(all_initialized_arrays, i + 1, accounts)

\* print_exact_liquidity_ranges: max cumulative liquidity, from tick i on
RECURSIVE MaxLiquidity(_, _, _, _)
MaxLiquidity(all_ticks, i, temp_liquidity, max_liquidity) ==
    IF i > Len(all_ticks) THEN max_liquidity
    ELSE LET temp == temp_liquidity + all_ticks[i].liquidity_net
         IN  MaxLiquidity(all_ticks, i + 1, temp,
                          IF temp > max_liquidity THEN temp ELSE max_liquidity)

\* print_exact_liquidity_ranges:
\* let array_start_index = (tick / ticks_per_array) * ticks_per_array
CurveArrayStartIndex(tick, ticks_per_array) ==
    WrapMul(TruncDiv(tick, ticks_per_array), ticks_per_array)

\* print_exact_liquidity_ranges: the lines of the main loop from tick i on.
\* last_tick_processed and current_array_start are Options; run holds the
\* arguments that stay fixed.
RECURSIVE CurveLines(_, _, _, _, _, _)
CurveLines(all_ticks, i, cumulative_liquidity, last_tick_processed, current_array_start, run) ==
    IF i > Len(all_ticks) THEN
        IF current_array_start # <<>> /\ run.show_arrays
        THEN <<[kind |-> "array_end",
                tick |-> WrapAdd(current_array_start[1], run.ticks_per_array) - 1]>>
        ELSE <<>>
    ELSE
        LET tick == all_ticks[i].tick
            array_start_index == CurveArrayStartIndex(tick, run.ticks_per_array)
            enters == current_array_start # <<array_start_index>>
            closing ==
                IF enters /\ current_array_start # <<>> /\ run.show_arrays
                THEN <<[kind |-> "array_end",
                        tick |-> WrapAdd(current_array_start[1], run.ticks_per_array) - 1]>>
                ELSE <<>>
            opening ==
                IF enters /\ run.show_arrays
                THEN <<[kind |-> "array_start", start_index |-> array_start_index,
                        pda |-> TickArrayPda(run.pool_id, array_start_index)]>>
                ELSE <<>>
            range ==
                IF last_tick_processed # <<>> /\ cumulative_liquidity > 0
                THEN LET last_tick == last_tick_processed[1]
                         price_start == TickToPrice(last_tick, run.tag, run.decimals_0,
                                                    run.decimals_1)
                         price_end == TickToPrice(tick - 1, run.tag, run.decimals_0,
                                                  run.decimals_1)
                         normalized == (cumulative_liquidity * run.max_width)
                                           \div run.max_liquidity
                         swap == ~F64Lt(price_start, price_end)
                     IN  <<[kind |-> "range",
                            p_start |-> IF swap THEN price_end ELSE price_start,
                            p_end |-> IF swap THEN price_start ELSE price_end,
                            liquidity |-> cumulative_liquidity,
                            bar |-> Max(normalized, 1),
                            marker |-> run.current_tick >= last_tick
                                           /\ run.current_tick < tick]>>
                ELSE <<>>
        IN  closing \o opening \o range
            \o CurveLines(all_ticks, i + 1,
                          cumulative_liquidity + all_ticks[i].liquidity_net,
                          <<tick>>, <<array_start_index>>, run)

\* RpcCommands::LiquidityCurve
LiquidityCurve ==
    /\ cmd = "none"
    /\ \E bits \in CurveBitSets, tick_spacing \in CurveSpacings :
       \E tick_array_bitmap \in {DefaultOfPair(bits)} :
       \E extension \in {ExtensionOfPair(bits)} :
       \E all_initialized_arrays \in
              {ReadDefaultBitmap(tick_array_bitmap, tick_spacing)
                   \o ReadExtensionBitmap(extension, tick_spacing)} :
       \E kinds \in [Elems(all_initialized_arrays) -> AccountKinds],
          tick_current \in CurveTicks, format \in HumanPriceFormats,
          max_width \in MaxWidths, show_arrays \in BOOLEAN,
          overflow_checks \in BOOLEAN :
        LET accounts == [s \in Elems(all_initialized_arrays) |->
                            TickArrayAccount(kinds[s], s, tick_spacing)]
            pool_state == [tick_spacing |-> tick_spacing,
                           tick_current |-> tick_current,
                           mint_decimals_0 |-> SwapPoolDecimals[1],
                           mint_decimals_1 |-> SwapPoolDecimals[2],
                           tick_array_bitmap |-> tick_array_bitmap]
            fetched == [i \in 1..Len(all_initialized_arrays) |->
                           TickArrayPda("pool", all_initialized_arrays[i])]
            all_ticks == SortSeq(CollectTicks(all_initialized_arrays, 1, accounts),
                                 LAMBDA a, b : a.tick < b.tick)
            max_liquidity == MaxLiquidity(all_ticks, 1, 0, 0)
            run == [pool_id |-> "pool", show_arrays |-> show_arrays,
                    ticks_per_array |-> TICK_ARRAY_SIZE * tick_spacing,
                    current_tick |-> tick_current,
                    max_width |-> max_width, max_liquidity |-> max_liquidity,
                    tag |-> IF format = "T0PerT1" THEN "Token0PerToken1Human"
                            ELSE "Token1PerToken0Human",
                    decimals_0 |-> pool_state.mint_decimals_0,
                    decimals_1 |-> pool_state.mint_decimals_1]
        IN  /\ cmd' = "LiquidityCurve"
            /\ args' = [pool_id |-> "pool", format |-> format,
                        max_width |-> max_width, show_arrays |-> show_arrays,
                        pool_state |-> pool_state, extension |-> extension,
                        accounts |-> accounts]
            /\ out' =
                 IF overflow_checks
                        /\ ReadOverflows(tick_array_bitmap, extension, tick_spacing)
                 THEN [status |-> "panic", fetched |-> <<>>, all_ticks |-> <<>>,
                       single_boundary_warning |-> FALSE, lines |-> <<>>]
                 ELSE [fetched |-> fetched,
                       all_ticks |-> all_ticks,
                       single_boundary_warning |-> Len(all_ticks) = 1,
                       status |-> IF all_ticks = <<>> THEN "no_boundaries"
                                  ELSE IF max_liquidity <= 0 THEN "no_active_liquidity"
                                  ELSE "ok",
                       lines |-> IF all_ticks = <<>> \/ max_liquidity <= 0 THEN <<>>
                                 ELSE CurveLines(all_ticks, 1, 0, <<>>, <<>>, run)]

Init ==
    /\ cmd = "none"
    /\ args = [none |-> TRUE]
    /\ out = [none |-> TRUE]

\* the commands that need no account data
NextIndexer ==
    \/ TickInfo
    \/ ArrayInfo
    \/ DerivePda

\* the commands that list the populated tick arrays of a pool
NextBitmap ==
    \/ DefaultBitmap
    \/ ExtensionBitmap
    \/ FullAnalysis

\* the commands that resolve the tick arrays of a swap
NextResolver ==
    \/ GetSwapArraysBlind
    \/ GetSwapArrays

\* the command that draws the liquidity of a pool
NextCurve ==
    \/ LiquidityCurve

Next == NextIndexer \/ NextBitmap \/ NextResolver \/ NextCurve

Spec == Init /\ [][Next]_vars
SpecIndexer == Init /\ [][NextIndexer]_vars
SpecBitmap == Init /\ [][NextBitmap]_vars
SpecResolver == Init /\ [][NextResolver]_vars
SpecCurve == Init /\ [][NextCurve]_vars

(***************************************************************************)
(* Properties of the array indexing (TickArrayHelper)                       *)
(***************************************************************************)

\* the runs that computed the start index of the array holding a tick
IndexedRun == (cmd = "DerivePda" /\ out.derived) \/ cmd = "TickInfo"
IndexedTick == IF cmd = "DerivePda" THEN out.input_tick ELSE out.aligned_tick
IndexedTpa == TICK_ARRAY_SIZE * args.tick_spacing

\* the multiples of ticks-per-array around the ticks of the model
ArrayStartsAround(tpa) ==
    {k * tpa : k \in (-(MaxTick \div tpa) - 2)..((MaxTick \div tpa) + 2)}

\* C1: get_array_start_index(tick) is floor(tick / tpa) * tpa with
\* tpa = 60 * tick_spacing, the floor rounding toward negative infinity: the
\* result s is a multiple of tpa with s <= tick < s + tpa, for negative, zero
\* and positive ticks.
C1_StartIndexIsFloor ==
    IndexedRun =>
        LET tpa == IndexedTpa
            t == IndexedTick
            s == out.start_index
        IN  /\ s = FloorDiv(t, tpa) * tpa
            /\ s % tpa = 0
            /\ s <= t /\ t < s + tpa

\* a negative tick that is no multiple of tpa was indexed, below the first array
C1_Witness ==
    /\ cmd = "DerivePda" /\ out.derived
    /\ out.input_tick < -IndexedTpa
    /\ out.input_tick % IndexedTpa # 0
    /\ out.start_index < out.input_tick

\* C2: the tick arrays partition the tick line: every tick lies in
\* get_array_tick_range(s) for exactly one multiple s of tpa, namely
\* s = get_array_start_index(tick); each range holds exactly tpa ticks and ends
\* at s + tpa - 1, immediately before the range of start s + tpa begins.
C2_RangesPartition ==
    /\ IndexedRun =>
        \A s \in ArrayStartsAround(IndexedTpa) :
            LET r == GetArrayTickRange(s, args.tick_spacing)
                next == GetArrayTickRange(s + IndexedTpa, args.tick_spacing)
            IN  /\ (r[1] <= IndexedTick /\ IndexedTick <= r[2]) <=> (s = out.start_index)
                /\ r[1] = s
                /\ r[2] - r[1] + 1 = IndexedTpa
                /\ next[1] = r[2] + 1
    /\ IndexedRun => out.start_index \in ArrayStartsAround(IndexedTpa)
    /\ cmd = "ArrayInfo" =>
        /\ out.range[1] = args.start_index
        /\ out.range[2] = args.start_index + TICK_ARRAY_SIZE * args.tick_spacing - 1

\* the last tick of an array was indexed: one more and it is in the next array
C2_Witness ==
    /\ cmd = "DerivePda" /\ out.derived
    /\ out.input_tick < 0
    /\ out.input_tick = GetArrayTickRange(out.start_index, args.tick_spacing)[2]

\* C3: get_array_start_index is idempotent, and its result is a multiple of
\* 60 * tick_spacing.
C3_StartIndexIdempotent ==
    IndexedRun =>
        /\ GetArrayStartIndex(out.start_index, args.tick_spacing) = out.start_index
        /\ out.start_index % IndexedTpa = 0

\* a negative tick that is itself an array start was indexed
C3_Witness ==
    /\ cmd = "DerivePda" /\ out.derived
    /\ out.input_tick < 0
    /\ out.input_tick % IndexedTpa = 0
    /\ out.start_index = out.input_tick

(***************************************************************************)
(* Claims about the bitmap decoders                                         *)
(***************************************************************************)

\* the global positions 0..1023 of the set bits of a [u64; 16]
SetBitsOfDefault(bitmap) ==
    UNION {{word_idx * 64 + b : b \in bitmap[word_idx]} : word_idx \in DOMAIN bitmap}

\* the <<chunk, position in chunk 0..511>> of the set bits of one extension side
SetBitsOfChunks(chunks) ==
    UNION {UNION {{<<c, word_idx * 64 + b>> : b \in chunks[c][word_idx]} :
                     word_idx \in DOMAIN chunks[c]} :
           c \in DOMAIN chunks}

\* the array offsets of a list of start indices
OffsetsOf(starts, tick_spacing) ==
    {TruncDiv(starts[i], TICK_ARRAY_SIZE * tick_spacing) : i \in 1..Len(starts)}

\* C4: read_default_bitmap returns exactly the set
\* { (i - 512) * 60 * tick_spacing : bit i of the 1024-bit bitmap is set },
\* global bit i being bit (i mod 64) of word (i div 64).
C4_DefaultBitmapDecoded ==
    cmd = "DefaultBitmap" =>
        LET tpa == 60 * args.pool_state.tick_spacing
        IN  Elems(out.initialized) =
                {(i - 512) * tpa : i \in SetBitsOfDefault(args.pool_state.tick_array_bitmap)}

\* only bit 0 and bit 1023 of the default bitmap are set
C4_Witness ==
    /\ cmd = "DefaultBitmap"
    /\ SetBitsOfDefault(args.pool_state.tick_array_bitmap) = {0, 1023}
    /\ out.initialized = <<-512 * 60 * args.pool_state.tick_spacing,
                           511 * 60 * args.pool_state.tick_spacing>>

\* C5: read_extension_bitmap returns exactly the start indices
\* offset * 60 * tick_spacing where, for each set bit b (0..511) of chunk c
\* (0..13), offset = 512 + c*512 + b on the positive side and
\* offset = -513 - c*512 - (511 - b) on the negative side.
C5_ExtensionBitmapDecoded ==
    cmd = "ExtensionBitmap" =>
        LET tpa == 60 * args.pool_state.tick_spacing
            pos == SetBitsOfChunks(args.extension.positive_tick_array_bitmap)
            neg == SetBitsOfChunks(args.extension.negative_tick_array_bitmap)
        IN  Elems(out.initialized) =
                {(512 + x[1] * 512 + x[2]) * tpa : x \in pos}
                \cup {(-513 - x[1] * 512 - (511 - x[2])) * tpa : x \in neg}

\* bit 511 and bit 0 of negative chunk 0 are set: the offsets -513 and -1024
C5_Witness ==
    /\ cmd = "ExtensionBitmap"
    /\ SetBitsOfChunks(args.extension.negative_tick_array_bitmap) = {<<0, 0>>, <<0, 511>>}
    /\ out.initialized = <<-1024 * 60 * args.pool_state.tick_spacing,
                           -513 * 60 * args.pool_state.tick_spacing>>

\* the inverse mapping: the default bitmap of a set of array offsets
EncodeDefault(offsets) ==
    [word_idx \in 0..15 |->
        {(o + 512) % 64 :
            o \in {x \in offsets : /\ -512 <= x /\ x <= 511
                                   /\ (x + 512) \div 64 = word_idx}}]

\* the inverse mapping: the positive side of the extension
EncodePositive(offsets) ==
    [c \in 0..13 |-> [word_idx \in 0..7 |->
        {((o - 512) % 512) % 64 :
            o \in {x \in offsets : /\ x >= 512
                                   /\ (x - 512) \div 512 = c
                                   /\ ((x - 512) % 512) \div 64 = word_idx}}]]

\* the inverse mapping: the negative side of the extension, bit-reversed
EncodeNegative(offsets) ==
    [c \in 0..13 |-> [word_idx \in 0..7 |->
        {(511 - ((-513 - o) % 512)) % 64 :
            o \in {x \in offsets : /\ x <= -513
                                   /\ (-513 - x) \div 512 = c
                                   /\ (511 - ((-513 - x) % 512)) \div 64 = word_idx}}]]

\* the bitmaps a run fetched and the start indices it decoded from them
DecodedRun == cmd \in {"DefaultBitmap", "ExtensionBitmap", "FullAnalysis", "GetSwapArrays"}
DecodedStarts ==
    IF cmd \in {"DefaultBitmap", "ExtensionBitmap"} THEN out.initialized
    ELSE out.all_initialized_arrays
FetchedDefault ==
    IF cmd = "ExtensionBitmap" THEN DefaultBitmapWith({})
    ELSE args.pool_state.tick_array_bitmap
FetchedExtension ==
    IF cmd = "DefaultBitmap" THEN ExtensionWith({}) ELSE args.extension
FetchedSetBits ==
    Cardinality(SetBitsOfDefault(FetchedDefault))
        + Cardinality(SetBitsOfChunks(FetchedExtension.positive_tick_array_bitmap))
        + Cardinality(SetBitsOfChunks(FetchedExtension.negative_tick_array_bitmap))

\* C6: the bit-position to array-offset mapping of the decoders is a
\* bijection: distinct bit positions, across the default bitmap and both
\* sides of the extension, never decode to the same offset, and re-encoding
\* the decoded offsets with the inverse mapping reproduces the bit pattern.
C6_DecodeEncodeRoundTrip ==
    DecodedRun =>
        LET offsets == OffsetsOf(DecodedStarts, args.pool_state.tick_spacing)
        IN  /\ Cardinality(offsets) = FetchedSetBits
            /\ EncodeDefault(offsets) = FetchedDefault
            /\ EncodePositive(offsets) = FetchedExtension.positive_tick_array_bitmap
            /\ EncodeNegative(offsets) = FetchedExtension.negative_tick_array_bitmap

\* the last bit of the default bitmap's lower half of the line, offset -512,
\* and its neighbour on the negative extension, offset -513, were decoded together
C6_Witness ==
    /\ cmd = "FullAnalysis"
    /\ SetBitsOfDefault(args.pool_state.tick_array_bitmap) = {0}
    /\ SetBitsOfChunks(args.extension.negative_tick_array_bitmap) = {<<0, 511>>}
    /\ OffsetsOf(out.all_initialized_arrays, args.pool_state.tick_spacing) = {-513, -512}

\* C7: the combined populated list (read_default_bitmap, append
\* read_extension_bitmap, sort) is strictly ascending: sorted, and no start
\* index appears twice.
C7_CombinedListStrictlyAscending ==
    cmd \in {"FullAnalysis", "GetSwapArrays"} =>
        \A i \in 1..(Len(out.all_initialized_arrays) - 1) :
            out.all_initialized_arrays[i] < out.all_initialized_arrays[i + 1]

\* a default bit and a negative extension bit are set: the reads, appended,
\* are not in order, and the list is
C7_Witness ==
    /\ cmd = "FullAnalysis"
    /\ Len(out.all_initialized_arrays) = 2
    /\ AllInitializedArraysUnsorted(args.pool_state.tick_array_bitmap, args.extension,
                                    args.pool_state.tick_spacing)
           # out.all_initialized_arrays

(***************************************************************************)
(* Claims about the swap array resolution                                   *)
(***************************************************************************)

\* the runs that printed a list of swap arrays
ResolvedRun == cmd \in {"GetSwapArraysBlind", "GetSwapArrays"} /\ out.status = "ok"
BlindRun == cmd = "GetSwapArraysBlind" /\ out.status = "ok"

\* the closed tick intervals [a1, a2] and [b1, b2] have a tick in common
Intersects(a1, a2, b1, b2) == a1 <= b2 /\ b1 <= a2

\* the rule that classifies the array [s, s + tpa - 1] of a run
CoreRange == <<Min(out.tick_start, out.tick_impact), Max(out.tick_start, out.tick_impact)>>
FavorableRange ==
    <<Min(out.tick_start, out.tick_favorable), Max(out.tick_start, out.tick_favorable)>>
ArrayEnd(s) == s + 60 * args.pool_state.tick_spacing - 1
IsCore(s) == Intersects(s, ArrayEnd(s), CoreRange[1], CoreRange[2])
IsFavorable(s) ==
    Intersects(s, ArrayEnd(s), FavorableRange[1], FavorableRange[2]) /\ ~IsCore(s)

\* the printed entries and their classes: the label in blind mode, the rule
\* in strict mode, whose label is the same for every array in range
IsSurrounding(e) == e.label \in {"SURROUNDING_DN", "SURROUNDING_UP"}
IsCoreEntry(e) ==
    ~IsSurrounding(e) /\ (IF e.label = "IN-RANGE" THEN IsCore(e.start_index)
                          ELSE e.label = "CORE")
IsFavorableEntry(e) ==
    ~IsSurrounding(e) /\ (IF e.label = "IN-RANGE" THEN IsFavorable(e.start_index)
                          ELSE e.label = "FAVORABLE")

\* the order of two start indices that follows the direction
InDirection(a, b) == IF args.direction = "BuyT1" THEN a > b ELSE a < b

\* C8: the result is emitted in execution order: for BuyToken1 the Favorable
\* arrays in descending start order, then the Core arrays in descending
\* order, then the surrounding array below, last; for BuyToken0 the Favorable
\* arrays ascending, then the Core arrays ascending, then the surrounding
\* array above, last. The surrounding entry never precedes another entry.
C8_EmittedInExecutionOrder ==
    ResolvedRun =>
        LET printed == out.printed
            n == Len(printed)
        IN  /\ \A i \in 1..n :
                 IsSurrounding(printed[i]) =>
                    /\ i = n
                    /\ printed[i].label = IF args.direction = "BuyT1"
                                          THEN "SURROUNDING_DN" ELSE "SURROUNDING_UP"
            /\ \A i \in 1..n :
                 ~IsSurrounding(printed[i]) =>
                    IsFavorableEntry(printed[i]) \/ IsCoreEntry(printed[i])
            /\ \A i \in 1..n, j \in 1..n :
                 i < j =>
                    /\ ~(IsCoreEntry(printed[i]) /\ IsFavorableEntry(printed[j]))
                    /\ (IsFavorableEntry(printed[i]) /\ IsFavorableEntry(printed[j]))
                         => InDirection(printed[i].start_index, printed[j].start_index)
                    /\ (IsCoreEntry(printed[i]) /\ IsCoreEntry(printed[j]))
                         => InDirection(printed[i].start_index, printed[j].start_index)

\* C9: for favorable_pct >= 0 and impact_pct >= 0, in strict and in blind
\* mode, the emitted start indices without the surrounding entry (Favorable
\* entries, then Core entries) are non-increasing for BuyToken1 and
\* non-decreasing for BuyToken0.
C9_EmittedMonotone ==
    (ResolvedRun /\ args.favorable_pct >= 0 /\ args.impact_pct >= 0) =>
        LET printed == out.printed
        IN  \A i \in 1..Len(printed), j \in 1..Len(printed) :
                (i < j /\ ~IsSurrounding(printed[i]) /\ ~IsSurrounding(printed[j])) =>
                    IF args.direction = "BuyT1"
                    THEN printed[i].start_index >= printed[j].start_index
                    ELSE printed[i].start_index <= printed[j].start_index

\* C10: in blind mode each candidate array [s, s + tpa - 1] is Core iff it
\* intersects core_range = [min(start_tick, tick_impact), max(start_tick,
\* tick_impact)], and Favorable iff it intersects favorable_range =
\* [min(start_tick, tick_favorable), max(start_tick, tick_favorable)] and not
\* core_range; no array is in both lists, and an array that intersects
\* neither range is in neither list.
C10_BlindClassification ==
    BlindRun =>
        /\ \A s \in Elems(out.potential_arrays) :
            /\ (s \in Elems(out.core_arrays)) <=> IsCore(s)
            /\ (s \in Elems(out.favorable_arrays)) <=> IsFavorable(s)
        /\ Elems(out.core_arrays) \cap Elems(out.favorable_arrays) = {}
        /\ Elems(out.core_arrays) \cup Elems(out.favorable_arrays)
               \subseteq Elems(out.potential_arrays)
        /\ \A i \in 1..Len(out.printed) :
            /\ out.printed[i].label = "CORE"
                 => out.printed[i].start_index \in Elems(out.core_arrays)
            /\ out.printed[i].label = "FAVORABLE"
                 => out.printed[i].start_index \in Elems(out.favorable_arrays)
        /\ Len(out.printed) = Len(out.core_arrays) + Len(out.favorable_arrays) + 1

\* a blind run with a Favorable array, and a Core array that intersects the
\* favorable range as well
C10_Witness ==
    /\ BlindRun
    /\ out.favorable_arrays # <<>>
    /\ \E s \in Elems(out.core_arrays) :
          Intersects(s, ArrayEnd(s), FavorableRange[1], FavorableRange[2])
    /\ out.tick_favorable # out.tick_start
    /\ args.favorable_pct < 100 /\ args.impact_pct < 100

(***************************************************************************)
(* Claims about strict mode                                                 *)
(***************************************************************************)

StrictRun == cmd = "GetSwapArrays" /\ out.status = "ok"

\* C11: in strict mode every emitted non-surrounding array is reported as
\* Core when its tick range intersects core_range and as Favorable when it
\* intersects only favorable_range, by the rule of blind mode.
C11_StrictLabelsCoreAndFavorable ==
    StrictRun =>
        \A i \in 1..Len(out.printed) :
            ~IsSurrounding(out.printed[i]) =>
                /\ IsCore(out.printed[i].start_index) => out.printed[i].label = "CORE"
                /\ IsFavorable(out.printed[i].start_index)
                     => out.printed[i].label = "FAVORABLE"

\* the span [min_tick, max_tick] of a run, and the start indices it printed
\* before the surrounding one
SpanMin == Min(out.tick_favorable, out.tick_impact)
SpanMax == Max(out.tick_favorable, out.tick_impact)
PrintedInSpan ==
    {out.printed[i].start_index :
        i \in {j \in 1..Len(out.printed) : ~IsSurrounding(out.printed[j])}}

\* the candidate set of blind mode for the span of the run
BlindCandidates ==
    Elems(PotentialArrays(GetArrayStartIndex(SpanMin, args.pool_state.tick_spacing),
                          GetArrayStartIndex(SpanMax, args.pool_state.tick_spacing),
                          TickIndicesPerArray(args.pool_state.tick_spacing)))

\* C12: strict mode refines blind mode: the non-surrounding arrays strict
\* mode emits are the blind-mode candidates array_start(min_tick), ...,
\* array_start(max_tick) that are populated: nothing unpopulated is emitted
\* and no populated candidate is dropped.
C12_StrictRefinesBlind ==
    StrictRun =>
        PrintedInSpan = BlindCandidates \cap Elems(out.all_initialized_arrays)

\* the populated arrays of a strict run strictly beyond its span on the impact
\* side: below it for BuyT1, above it for BuyT0
ArraysBeyondSpan ==
    IF args.direction = "BuyT1"
    THEN {s \in Elems(out.all_initialized_arrays) : ArrayEnd(s) < SpanMin}
    ELSE {s \in Elems(out.all_initialized_arrays) : s > SpanMax}

\* the surrounding entries a run printed
PrintedSurrounding ==
    {out.printed[i].start_index :
        i \in {j \in 1..Len(out.printed) : IsSurrounding(out.printed[j])}}

\* C13: in strict mode the surrounding array is the nearest populated array
\* strictly beyond the span [min_tick, max_tick] on the impact side: for
\* BuyToken1 the greatest populated start whose range ends below min_tick,
\* for BuyToken0 the least populated start above max_tick. No populated array
\* lies between the span and it, and it is none of the arrays in the span.
C13_StrictSurroundingIsNearest ==
    StrictRun =>
        \A s \in PrintedSurrounding :
            /\ s \in ArraysBeyondSpan
            /\ \A t \in ArraysBeyondSpan :
                 IF args.direction = "BuyT1" THEN t <= s ELSE s <= t
            /\ s \notin PrintedInSpan
            /\ \A t \in Elems(out.all_initialized_arrays) :
                 IF args.direction = "BuyT1"
                 THEN ~(s < t /\ ArrayEnd(t) < SpanMin)
                 ELSE ~(SpanMax < t /\ t < s)

\* two populated arrays lie beyond the span and the nearer one is printed
C13_Witness ==
    /\ StrictRun
    /\ Cardinality(ArraysBeyondSpan) >= 2
    /\ PrintedSurrounding # {}
    /\ PrintedInSpan # {}
    /\ args.favorable_pct < 100 /\ args.impact_pct < 100

\* C14: in strict mode the 'no surrounding array' outcome is reported iff no
\* populated array lies strictly beyond the span on the impact side; then no
\* surrounding entry is emitted, and whenever such an array exists a
\* surrounding entry is emitted and the outcome is not reported.
C14_NoSurroundingReported ==
    StrictRun =>
        /\ out.warning <=> (ArraysBeyondSpan = {})
        /\ out.warning => PrintedSurrounding = {}
        /\ (ArraysBeyondSpan # {}) => (Cardinality(PrintedSurrounding) = 1 /\ ~out.warning)
        /\ out.total_arrays = Len(out.printed)

\* a pool with populated arrays, all of them in the span or on the other side
C14_Witness ==
    /\ StrictRun
    /\ out.warning
    /\ PrintedInSpan # {}
    /\ Elems(out.all_initialized_arrays) \ PrintedInSpan # {}
    /\ args.favorable_pct < 100 /\ args.impact_pct < 100

(***************************************************************************)
(* Claims about blind mode and the ticks of the span                        *)
(***************************************************************************)

\* C15: in blind mode the surrounding array is always present and is exactly
\* one array width beyond the candidate span on the impact side:
\* array_start(min_tick) - tpa for BuyToken1 and array_start(max_tick) + tpa
\* for BuyToken0; it is adjacent to the candidate set and not a member of it.
C15_BlindSurroundingAdjacent ==
    cmd = "GetSwapArraysBlind" =>
        /\ out.status = "ok"
        /\ LET tick_spacing == args.pool_state.tick_spacing
               tpa == 60 * tick_spacing
               last == out.printed[Len(out.printed)]
               s == last.start_index
           IN  /\ IsSurrounding(last)
               /\ Cardinality(PrintedSurrounding) = 1
               /\ IF args.direction = "BuyT1"
                  THEN /\ last.label = "SURROUNDING_DN"
                       /\ s = WrapAdd(GetArrayStartIndex(SpanMin, tick_spacing), -tpa)
                  ELSE /\ last.label = "SURROUNDING_UP"
                       /\ s = WrapAdd(GetArrayStartIndex(SpanMax, tick_spacing), tpa)
               /\ s \notin Elems(out.potential_arrays)
               /\ out.potential_arrays # <<>>
               /\ IF args.direction = "BuyT1"
                  THEN s + tpa = out.potential_arrays[1]
                  ELSE s - tpa = out.potential_arrays[Len(out.potential_arrays)]

\* the labels and start indices of the printed entries, in order
PrintedList ==
    [i \in 1..Len(out.printed) |-> <<out.printed[i].start_index, out.printed[i].label>>]

\* the blind run of the scenario: tick_spacing 10, start tick 0, BuyToken0,
\* favorable_pct 1, impact_pct 2
ScenarioRun ==
    /\ cmd = "GetSwapArraysBlind"
    /\ args.pool_state.tick_spacing = 10
    /\ out.tick_start = 0
    /\ args.direction = "BuyT0"
    /\ args.favorable_pct = 1
    /\ args.impact_pct = 2

\* C16: with tick_spacing = 10, start_tick = 0, direction BuyToken0,
\* favorable_pct = 1 and impact_pct = 2, blind mode computes
\* tick_favorable = -101 and tick_impact = 198 and emits exactly -600 as
\* Favorable, 0 as Core and 600 as the surrounding array above, in that order.
C16_BlindScenario ==
    ScenarioRun =>
        /\ out.status = "ok"
        /\ out.tick_favorable = -101
        /\ out.tick_impact = 198
        /\ PrintedList = <<<<-600, "FAVORABLE">>, <<0, "CORE">>, <<600, "SURROUNDING_UP">>>>

\* the scenario was run and printed its three arrays
C16_Witness ==
    /\ ScenarioRun
    /\ args.price = <<>>
    /\ Len(out.printed) = 3
    /\ out.printed[1].start_index = -600

SwapRun == cmd \in {"GetSwapArraysBlind", "GetSwapArrays"}

\* C17: for favorable_pct >= 0 and impact_pct >= 0 the signs follow the
\* direction: for BuyToken1 favorable_raw = start_raw * (1 + favorable_pct/100)
\* and impact_raw = start_raw * (1 - impact_pct/100), so
\* tick_impact <= start_tick <= tick_favorable; for BuyToken0 both signs are
\* inverted, so tick_favorable <= start_tick <= tick_impact. Strict and blind
\* mode compute the same pair from the same inputs.
C17_SignsFollowDirection ==
    (SwapRun /\ args.favorable_pct >= 0 /\ args.impact_pct >= 0) =>
        /\ IF args.direction = "BuyT1"
           THEN out.tick_impact <= out.tick_start /\ out.tick_start <= out.tick_favorable
           ELSE out.tick_favorable <= out.tick_start /\ out.tick_start <= out.tick_impact
        /\ \E log_below \in BOOLEAN :
             <<out.tick_favorable, out.tick_impact>> =
                 SwapTicks(args.direction, out.tick_start, args.favorable_pct,
                           args.impact_pct, log_below)

\* C18: the help of the swap direction says that buy-t1 makes price and tick
\* increase and buy-t0 makes them decrease: for buy-t1 the impact tick is at
\* or above the start tick and the surrounding array is above the span, for
\* buy-t0 the impact tick is at or below the start tick and the surrounding
\* array is below the span.
C18_HelpMatchesResolver ==
    ResolvedRun =>
        IF DirectionHelp(args.direction) = "increases"
        THEN /\ out.tick_impact >= out.tick_start
             /\ \A i \in 1..Len(out.printed) :
                  IsSurrounding(out.printed[i]) =>
                     /\ out.printed[i].label = "SURROUNDING_UP"
                     /\ out.printed[i].start_index > SpanMax
        ELSE /\ out.tick_impact <= out.tick_start
             /\ \A i \in 1..Len(out.printed) :
                  IsSurrounding(out.printed[i]) =>
                     /\ out.printed[i].label = "SURROUNDING_DN"
                     /\ ArrayEnd(out.printed[i].start_index) < SpanMin

\* the raw prices of a swap run whose logarithm raw_price_to_tick takes
SwapRawPrices ==
    LET start_raw_price == TickToRawPrice(out.tick_start)
    IN  IF args.direction = "BuyT1"
        THEN {F64Mul(start_raw_price, OnePlusPct(args.favorable_pct)),
              F64Mul(start_raw_price, OneMinusPct(args.impact_pct))}
        ELSE {F64Mul(start_raw_price, OneMinusPct(args.favorable_pct)),
              F64Mul(start_raw_price, OnePlusPct(args.impact_pct))}

\* C19: raw_price_to_tick fails with a distinct InvalidPriceDomain outcome
\* whenever the raw price it takes the logarithm of is not strictly positive
\* (zero, negative, or produced by a percentage >= 100); it returns no tick
\* for such a price, and the resolver does not continue with one.
C19_NonPositivePriceRejected ==
    (SwapRun /\ \E p \in SwapRawPrices : p.cls \in {"zero", "neg", "nan"}) =>
        /\ out.status = "InvalidPriceDomain"
        /\ "printed" \notin DOMAIN out

DerivedRun == cmd = "DerivePda"

\* the ticks derive-pda can take from its arguments: the explicit tick, or
\* the tick price_to_tick converts the price to
DerivePdaTicks ==
    IF args.tick # <<>> THEN {args.tick[1]}
    ELSE {PriceToTick(args.price[1], args.price[2], args.decimals0,
                      args.decimals1, log_below) : log_below \in BOOLEAN}

\* C20: derive-pda requires exactly one of an explicit tick and an explicit
\* price.  With both, or neither, it reports an error and derives no array
\* start index and no address; with exactly one it derives the address of
\* get_array_start_index of that tick (or of the tick converted from the
\* price).
C20_DerivePdaExactlyOne ==
    DerivedRun =>
        IF (args.tick = <<>>) # (args.price = <<>>)
        THEN /\ out.error = "none"
             /\ out.derived
             /\ out.input_tick \in DerivePdaTicks
             /\ out.start_index =
                    GetArrayStartIndex(out.input_tick, args.tick_spacing)
             /\ out.pda = TickArrayPda(args.pool_id, out.start_index)
        ELSE /\ out.error \in {"neither", "both"}
             /\ ~out.derived
             /\ DOMAIN out \cap {"input_tick", "start_index", "pda"} = {}

\* a run given both a tick and a price, which is rejected
C20_Witness ==
    /\ DerivedRun
    /\ args.tick # <<>>
    /\ args.price # <<>>
    /\ out.error = "both"
    /\ ~out.derived

TickInfoRun == cmd = "TickInfo"

\* C21: for every tick_spacing > 0 and every tick, align_tick_to_spacing(tick)
\* is the greatest multiple of tick_spacing that is <= tick (floor toward
\* negative infinity, also for negative ticks): the result a is a multiple of
\* tick_spacing with a <= tick < a + tick_spacing, and aligning an already
\* aligned tick returns it unchanged.
C21_AlignIsFloor ==
    TickInfoRun =>
        LET a == out.aligned_tick
            tick_spacing == args.tick_spacing
        IN  /\ a % tick_spacing = 0
            /\ a <= args.tick
            /\ args.tick < a + tick_spacing
            /\ AlignTickToSpacing(a, tick_spacing) = a

\* a negative tick off the spacing grid is snapped down, away from zero
C21_Witness ==
    /\ TickInfoRun
    /\ args.tick = -1
    /\ args.tick_spacing = 2
    /\ out.aligned_tick = -2

\* C22: for every tick_spacing > 0 and every tick (negative ones included),
\* the slot offset of tick-info, (aligned - get_array_start_index(aligned)) /
\* tick_spacing with aligned = align_tick_to_spacing(tick), is an integer in
\* [0, 59].
C22_SlotOffsetInArray ==
    TickInfoRun =>
        /\ out.aligned_tick = AlignTickToSpacing(args.tick, args.tick_spacing)
        /\ out.start_index = GetArrayStartIndex(out.aligned_tick, args.tick_spacing)
        /\ out.offset * args.tick_spacing = out.aligned_tick - out.start_index
        /\ out.offset \in 0..(TICK_ARRAY_SIZE - 1)

\* the last slot of the first array below zero, at spacing 2
C22_Witness ==
    /\ TickInfoRun
    /\ args.tick = -1
    /\ args.tick_spacing = 2
    /\ out.start_index = -120
    /\ out.offset = 59

\* the ticks whose price, as tick_to_price prints it for the tag of the run,
\* is the price given to derive-pda
DerivePdaPriceTicks ==
    {t \in Ticks : TickToPrice(t, args.price[1], args.decimals0, args.decimals1)
                       = args.price[2]}

\* C23: tick to price to tick round trip: for every tick and each of the four
\* quotation tags with fixed decimals, price_to_tick(tag(tick_to_price(tick,
\* tag))) is the tick again; in particular raw_price_to_tick(
\* tick_to_raw_price(tick)) is the tick.
C23_TickPriceRoundTrip ==
    (DerivedRun /\ args.tick = <<>> /\ args.price # <<>>) =>
        \A t \in DerivePdaPriceTicks : out.input_tick = t

(***************************************************************************)
(* Properties of the liquidity curve                                        *)
(***************************************************************************)
CurveRun == cmd = "LiquidityCurve"
CurveLinesOf(kind) == {out.lines[i] : i \in {j \in DOMAIN out.lines : out.lines[j].kind = kind}}

\* C24: in the liquidity-curve report, the array start index computed for
\* each tick boundary (used for the array start and end markers and the
\* array address) is get_array_start_index(tick), for every tick, negative
\* ticks that are not multiples of 60 * tick_spacing included.
C24_CurveArrayStartIsFloor ==
    (CurveRun /\ args.show_arrays /\ out.status = "ok") =>
        \A i \in DOMAIN out.all_ticks :
            LET start_index == GetArrayStartIndex(out.all_ticks[i].tick,
                                                  args.pool_state.tick_spacing)
            IN  /\ [kind |-> "array_start", start_index |-> start_index,
                    pda |-> TickArrayPda(args.pool_id, start_index)]
                        \in CurveLinesOf("array_start")
                /\ [kind |-> "array_end",
                    tick |-> GetArrayTickRange(start_index,
                                               args.pool_state.tick_spacing)[2]]
                        \in CurveLinesOf("array_end")

\* C25: a failure of the account data source (fetch error or undecodable
\* bytes) for a tick-array account is surfaced and never retried: when the
\* fetch of one populated tick array fails, the liquidity-curve run reports
\* that failure instead of continuing as if the array held no boundaries,
\* and no account address is fetched more than once in one run.
C25_FetchFailureSurfaced ==
    CurveRun =>
        /\ \A s \in DOMAIN args.accounts :
               args.accounts[s].status # "ok" =>
                   \/ out.status \in {"fetch_error", "parse_error"}
                   \/ \E line \in CurveLinesOf("error") :
                          line.pda = TickArrayPda(args.pool_id, s)
        /\ \A i, j \in DOMAIN out.fetched :
               out.fetched[i] = out.fetched[j] => i = j

(***************************************************************************)
(* Properties of the bitmap tiers                                           *)
(***************************************************************************)

\* the bits of one [u64; n] of the two accounts: <<tier, chunk, word, bit>>
ChunkBits(tier, chunk) ==
    {tier} \X {chunk} \X (0..((IF tier = "default" THEN DEFAULT_WORDS ELSE CHUNK_WORDS) - 1))
        \X (0..(WORD_BITS - 1))

\* the chunks of a tier
TierChunks(tier) == IF tier = "default" THEN {0} ELSE 0..(EXTENSION_CHUNKS - 1)

\* the set bits of the accounts a listing run fetched
FetchedTierBits ==
    {<<"default", 0, i \div WORD_BITS, i % WORD_BITS>> :
        i \in SetBitsOfDefault(FetchedDefault)}
    \cup {<<"positive", x[1], x[2] \div WORD_BITS, x[2] % WORD_BITS>> :
            x \in SetBitsOfChunks(FetchedExtension.positive_tick_array_bitmap)}
    \cup {<<"negative", x[1], x[2] \div WORD_BITS, x[2] % WORD_BITS>> :
            x \in SetBitsOfChunks(FetchedExtension.negative_tick_array_bitmap)}

\* the offsets a tier is to cover: together the interval -7680..7679
TierOffsets(tier) ==
    CASE tier = "default" -> (-512)..511
      [] tier = "positive" -> 512..7679
      [] tier = "negative" -> (-7680)..(-513)

\* the block of a tier's offsets that falls to one of its chunks
ChunkOffsets(tier, chunk) ==
    CASE tier = "default" -> (-512)..511
      [] tier = "positive" -> (512 + 512 * chunk)..(1023 + 512 * chunk)
      [] tier = "negative" -> (-1024 - 512 * chunk)..(-513 - 512 * chunk)

\* C26: the two bitmap tiers address one contiguous block of array offsets
\* with no gap and no overlap: a bit of the default tier decodes to an offset
\* in -512..511, one of the positive extension to 512..7679, one of the
\* negative extension to -7680..-513; within a tier each chunk of 512 (1024)
\* bits decodes into its own block of as many offsets, and no two bits of a
\* chunk decode to the same offset.  The 15360 bits thus cover [-7680, 7679]
\* exactly once.
C26_TiersContiguous ==
    cmd \in {"DefaultBitmap", "ExtensionBitmap"} =>
        /\ OffsetsOf(DecodedStarts, args.pool_state.tick_spacing)
               = {ArrayOffset(b[1], b[2], b[3], b[4]) : b \in FetchedTierBits}
        /\ \A b \in FetchedTierBits :
               LET offset == ArrayOffset(b[1], b[2], b[3], b[4])
               IN  /\ offset \in TierOffsets(b[1])
                   /\ ChunkOffsets(b[1], b[2]) \subseteq TierOffsets(b[1])
                   /\ Cardinality(ChunkOffsets(b[1], b[2]))
                          = Cardinality(ChunkBits(b[1], b[2]))
                   /\ \A chunk \in TierChunks(b[1]) :
                          offset \in ChunkOffsets(b[1], chunk) <=> chunk = b[2]
                   /\ \A c \in ChunkBits(b[1], b[2]) :
                          ArrayOffset(c[1], c[2], c[3], c[4]) = offset => c = b

\* the last bit of the positive extension decodes to the last offset, 7679
C26_Witness ==
    /\ cmd = "ExtensionBitmap"
    /\ FetchedTierBits = {<<"positive", 13, 7, 63>>}
    /\ OffsetsOf(out.initialized, args.pool_state.tick_spacing) = {7679}

\* the start indices a decoding run pushed, in the order of FetchedTierBits
CurveFetchedStarts == {out.fetched[i][3] : i \in DOMAIN out.fetched}

\* C27: for every tick_spacing in 1..65535 and every set bit of the default
\* or extension bitmap, the start index offset * 60 * tick_spacing computed
\* by read_default_bitmap and read_extension_bitmap lies within the signed
\* 32-bit range, so decoding never overflows: it neither aborts nor wraps to
\* a wrong start index.
C27_DecodeNeverOverflows ==
    CurveRun =>
        /\ out.status # "panic"
        /\ \A b \in FetchedTierBits :
               LET offset == ArrayOffset(b[1], b[2], b[3], b[4])
                   ticks_per_array == TICK_ARRAY_SIZE * args.pool_state.tick_spacing
               IN  /\ ~MulOverflows(offset, ticks_per_array)
                   /\ offset * ticks_per_array \in CurveFetchedStarts

\* the printed entries of a run with a given start index
PrintedAt(s) == {i \in DOMAIN out.printed : out.printed[i].start_index = s}

\* C28: in blind mode, whenever start_tick lies between tick_favorable and
\* tick_impact (inclusive), every enumerated candidate array is emitted
\* exactly once, as either Core or Favorable (none is excluded), the array
\* containing start_tick is always classified Core, and the reported total is
\* the number of candidates plus one for the surrounding array.
C28_BlindCandidatesAllEmitted ==
    (cmd = "GetSwapArraysBlind" /\ SpanMin <= out.tick_start /\ out.tick_start <= SpanMax) =>
        /\ out.status = "ok"
        /\ \A k \in DOMAIN out.potential_arrays :
               /\ Cardinality(PrintedAt(out.potential_arrays[k])) = 1
               /\ \A i \in PrintedAt(out.potential_arrays[k]) :
                      out.printed[i].label \in {"CORE", "FAVORABLE"}
        /\ \E i \in PrintedAt(GetArrayStartIndex(out.tick_start,
                                                 args.pool_state.tick_spacing)) :
               out.printed[i].label = "CORE"
        /\ out.total_arrays = Len(out.potential_arrays) + 1

\* C29: in both strict and blind mode, for favorable_pct >= 0 and
\* impact_pct >= 0, the complete emitted sequence including the surrounding
\* entry is strictly monotone in the trade direction (strictly decreasing
\* start indices for BuyToken1, strictly increasing for BuyToken0): no array
\* start index is emitted twice and the surrounding array lies strictly
\* beyond every other emitted array.
C29_EmittedStrictlyMonotone ==
    (SwapRun /\ args.favorable_pct >= 0 /\ args.impact_pct >= 0) =>
        /\ out.status = "ok"
        /\ \A i \in DOMAIN out.printed, j \in DOMAIN out.printed :
               i < j => InDirection(out.printed[i].start_index,
                                    out.printed[j].start_index)

(***************************************************************************)
(* Properties of the full-analysis report                                   *)
(***************************************************************************)
AnalysisRun == cmd = "FullAnalysis"
AnalysisLines(kind) == {i \in DOMAIN out.lines : out.lines[i].kind = kind}

\* C30: in the full-analysis report, for every populated set (the empty set
\* included) and every current tick, the current-tick marker is emitted
\* exactly once, after every populated array whose start index is <=
\* current_tick and before every populated array whose start index is >
\* current_tick, with the arrays themselves listed in ascending start order.
C30_CurrentTickMarkerPlaced ==
    AnalysisRun =>
        /\ Cardinality(AnalysisLines("current")) = 1
        /\ Cardinality(AnalysisLines("array")) = Len(out.all_initialized_arrays)
        /\ {out.lines[i].tick : i \in AnalysisLines("array")}
               = Elems(out.all_initialized_arrays)
        /\ \A m \in AnalysisLines("current") :
               /\ out.lines[m].tick = args.pool_state.tick_current
               /\ \A i \in AnalysisLines("array") :
                      IF out.lines[i].tick <= args.pool_state.tick_current
                      THEN i < m ELSE m < i
        /\ \A i \in AnalysisLines("array"), j \in AnalysisLines("array") :
               i < j => out.lines[i].tick < out.lines[j].tick

\* the marker between two populated arrays
C30_Witness ==
    /\ AnalysisRun
    /\ Len(out.lines) = 3
    /\ out.lines[2].kind = "current"
    /\ out.lines[1].tick <= args.pool_state.tick_current
    /\ out.lines[3].tick > args.pool_state.tick_current

====
